---------------------------- MODULE Spec2Model ----------------------------
(***************************************************************************)
(* A model of the path tracer sadlerap/raytracer-2: the intersection       *)
(* protocol (Sphere, HittableList), the hit-record orientation, the        *)
(* recursive colour integrator, the three materials (Lambertian, Metal,   *)
(* Dielectric), the camera builder, the parallel render loop and the PPM   *)
(* emission.                                                               *)
(*                                                                         *)
(* Numbers.  f32 values are modelled by integers on a fixed grid, chosen   *)
(* per quantity so that the modelled inputs are represented exactly:       *)
(*   - coordinates of points, centres, directions, radii: whole units;     *)
(*   - ray parameters t: units of 1/TUnit;                                 *)
(*   - the one place where the sign of an f32 zero decides a branch        *)
(*     (is_sign_negative in set_face_normal) keeps the IEEE-754 sign bit   *)
(*     of the dot product, computed term by term as Vec3::dot does.        *)
(* sqrt rounds down to the grid (ISqrt).                                   *)
(***************************************************************************)
EXTENDS Integers, Sequences, FiniteSets, TLC

VARIABLES
    \* ---- HittableList::hit (geometry/mod.rs) ----
    objects,          \* HittableList.objects: sequence of spheres
    r,                \* the ray handed to hit
    ray_t,            \* the queried interval [start, end)
    rec,              \* the value returned by HittableList::hit
    hit_pc,           \* "idle" | "call" | "done"
    sum_neutral_neg,  \* TRUE iff <f32 as Sum>::sum folds from -0.0 (std >= 1.83)
    \* ---- Camera::ray_color (camera.rs) ----
    cur_ray,          \* the ray of the innermost active call
    depth,            \* the depth argument of the innermost active call
    stack,            \* attenuations of the suspended calls, outermost first
    color,            \* the value being returned
    trace_pc,         \* "idle" | "call" | "return" | "done"
    hit_tests,        \* number of world.hit calls made so far
    call_depth,       \* the depth argument of the outermost call
    path,             \* what the world answered to each call, outermost first
    \* ---- Color::write_ppm (vec3.rs) ----
    ppm_color,        \* self: the accumulated colour of a pixel
    ppm_samples,      \* samples_per_pixel
    ppm_line,         \* the three integers written, or None
    \* ---- Camera::render_to_io (camera.rs) ----
    image_width,
    image_height,
    samples_per_pixel,
    buffer,           \* index -> Color
    pending,          \* indices par_iter_mut has not handed to a worker yet
    worker,           \* worker -> what it holds: (i, j, dest) or nothing
    output,           \* what the output stream received, in order
    emit_idx,         \* position of `for color in buffer`
    render_pc,        \* "idle" | "header" | "render" | "emit" | "ok" | "err"
    write_calls,      \* writes attempted on the stream (header and pixel lines)
    failed_at,        \* 0, or the number of the write that failed
    traced,           \* index -> how many times the pixel was traced
    slot_writes,      \* index -> how many times the slot was assigned
    \* ---- CameraBuilder and Camera::from (camera.rs) ----
    builder,          \* the CameraBuilder's Option fields
    last_set,         \* what each setter was last called with (Nothing if never)
    camera,           \* the Camera build() returned, or None
    build_pc,         \* "idle" | "building" | "built" | "panic"
    \* ---- HitRecord::set_face_normal (geometry/mod.rs) ----
    face_ray,         \* the ray
    face_outward,     \* outward_normal
    face_record,      \* the hit record, before and after the call
    face_pc,          \* "idle" | "call" | "done"
    \* ---- Dielectric::scatter (material/dielectric.rs) ----
    diel_ior,         \* self.ior, a ratio
    diel_ray,         \* the incoming ray
    diel_record,      \* the hit record
    diel_random,      \* the value rand::random() returns, in 1/RandomSteps
    diel_out,         \* what scatter returned, or Nothing
    \* ---- Lambertian::scatter, Metal::scatter (material/) ----
    scat_material,    \* self: [kind, albedo] or [kind, albedo, fuzz]
    scat_ray,         \* the incoming ray
    scat_record,      \* the hit record
    scat_unit,        \* what Vec3::random_on_unit_sphere() returns, in 1/NormUnit
    scat_out,         \* what scatter returned: Nothing or Some(..)
    scat_pc           \* "idle" | "call" | "done"

hitVars == <<objects, r, ray_t, rec, hit_pc>>

traceVars == <<cur_ray, depth, stack, color, trace_pc, hit_tests, call_depth, path>>

ppmVars == <<ppm_color, ppm_samples, ppm_line>>

renderVars == <<image_width, image_height, samples_per_pixel, buffer, pending, worker,
                output, emit_idx, render_pc, write_calls, failed_at, traced, slot_writes>>

buildVars == <<builder, last_set, camera, build_pc>>

faceVars == <<face_ray, face_outward, face_record, face_pc>>

dielVars == <<diel_ior, diel_ray, diel_record, diel_random, diel_out>>

scatVars == <<scat_material, scat_ray, scat_record, scat_unit, scat_out, scat_pc>>

vars == <<objects, r, ray_t, rec, hit_pc, sum_neutral_neg,
          cur_ray, depth, stack, color, trace_pc, hit_tests, call_depth, path,
          ppm_color, ppm_samples, ppm_line,
          image_width, image_height, samples_per_pixel, buffer, pending, worker,
          output, emit_idx, render_pc, write_calls, failed_at, traced, slot_writes,
          builder, last_set, camera, build_pc,
          face_ray, face_outward, face_record, face_pc,
          diel_ior, diel_ray, diel_record, diel_random, diel_out,
          scat_material, scat_ray, scat_record, scat_unit, scat_out, scat_pc>>

None == [none |-> TRUE]

\* Color::default()
Black == <<0, 0, 0>>

\* The colour variable before any call has returned.
NoColor == <<-1, -1, -1>>

-----------------------------------------------------------------------------
(* Bounds of the model *)

MaxObjects == 3

MaxDepth == 3

MaxSamples == 3

MaxPixels == 4

NumWorkers == 2

MaxSetterArg == 2

MaxCoord == 1

RandomSteps == 4

-----------------------------------------------------------------------------
(* f32 helpers *)

\* Ray parameters are kept in units of 1/TUnit.
TUnit == 4

\* f32::INFINITY, the upper end of the interval ray_color queries.
F32_INFINITY == 1000000

Abs(x) == IF x < 0 THEN -x ELSE x

\* f32::sqrt of a non-negative value, rounded down to the grid.
\* For n >= 1024 the root is located in two steps, first to a multiple of 256.
ISqrt(n) ==
    IF n < 1024 THEN CHOOSE k \in 0..32 : k * k <= n /\ n < (k + 1) * (k + 1)
    ELSE LET c == CHOOSE h \in 0..181 :
                      /\ (256 * h) * (256 * h) <= n
                      /\ h = 181 \/ n < (256 * (h + 1)) * (256 * (h + 1))
         IN  CHOOSE k \in (256 * c)..(256 * c + 255) :
                 /\ k <= 46340
                 /\ k * k <= n
                 /\ k = 46340 \/ n < (k + 1) * (k + 1)

\* An f32 with its sign bit: needed only where a zero's sign is observed.
F32(neg, mag) == [neg |-> neg, mag |-> mag]

F32Value(x) == IF x.neg THEN -x.mag ELSE x.mag

\* f32 * f32 on exactly representable operands: the sign bit is the xor.
F32Mul(x, y) == F32((x < 0) # (y < 0), Abs(x) * Abs(y))

\* f32 + f32 (round to nearest): x + (-x) = +0, (-0) + (-0) = -0.
F32Add(x, y) ==
    LET s == F32Value(x) + F32Value(y)
    IN  IF s # 0 THEN F32(s < 0, Abs(s))
        ELSE F32(x.mag = 0 /\ y.mag = 0 /\ x.neg /\ y.neg, 0)

is_sign_negative(x) == x.neg

-----------------------------------------------------------------------------
(* Vec3 (vec3.rs) *)

VAdd(u, v) == <<u[1] + v[1], u[2] + v[2], u[3] + v[3]>>

VNeg(u) == <<-u[1], -u[2], -u[3]>>

VSub(u, v) == VAdd(u, VNeg(v))

VScale(k, u) == <<k * u[1], k * u[2], k * u[3]>>

\* Vec3::dot as the f32 it returns, sign bit included: the products are
\* summed left to right by Iterator::sum, which folds from its neutral zero.
dot_f32(u, v) ==
    F32Add(F32Add(F32Add(F32(sum_neutral_neg, 0), F32Mul(u[1], v[1])),
                  F32Mul(u[2], v[2])),
           F32Mul(u[3], v[3]))

\* Vec3::dot as a number (the value of dot_f32, whose operands are exact).
dot(u, v) == u[1] * v[1] + u[2] * v[2] + u[3] * v[3]

len_squared(u) == dot(u, u)

\* Unit vectors are in units of 1/NormUnit.
NormUnit == 5

\* Vec3::normalize: self / self.len(), in 1/NormUnit.
normalize(u) ==
    LET l == ISqrt(len_squared(u))
    IN  <<(NormUnit * u[1]) \div l, (NormUnit * u[2]) \div l, (NormUnit * u[3]) \div l>>

-----------------------------------------------------------------------------
(* Ray (ray.rs) *)

Ray(origin, direction) == [origin |-> origin, direction |-> direction]

\* Ray::at for t in 1/TUnit: the point, in 1/TUnit as well.
at(ray, t) == VAdd(VScale(TUnit, ray.origin), VScale(t, ray.direction))

\* A closed interval: start <= x <= end.
Range_contains_inclusive(range, x) == range.start <= x /\ x <= range.end

\* std::ops::Range<f32>::contains: start <= x < end.
Range_contains(range, x) == range.start <= x /\ x < range.end

-----------------------------------------------------------------------------
(* HitRecord and Sphere (geometry/mod.rs, geometry/sphere.rs) *)

set_face_normal_inclusive(record, ray, outward_normal) ==
    LET front == dot(ray.direction, outward_normal) <= 0
    IN  [record EXCEPT !.front_face = front,
                       !.normal = IF front THEN outward_normal
                                  ELSE VNeg(outward_normal)]

set_face_normal(record, ray, outward_normal) ==
    LET front == is_sign_negative(dot_f32(ray.direction, outward_normal))
    IN  [record EXCEPT !.front_face = front,
                       !.normal = IF front THEN outward_normal
                                  ELSE VNeg(outward_normal)]

Sign(x) == IF x < 0 THEN -1 ELSE 1

\* Sphere::hit with the two roots tried in the opposite order.
Sphere_hit_larger_first(self, ray, range) ==
    LET oc == VSub(ray.origin, self.center)
        a == len_squared(ray.direction)
        half_b == dot(oc, ray.direction)
        c == len_squared(oc) - self.radius * self.radius
        discriminant == half_b * half_b - a * c
    IN  IF discriminant < 0 \/ a = 0 THEN None
        ELSE
        LET sqrtd == ISqrt(discriminant)
            root1 == ((-half_b + sqrtd) * TUnit) \div a
            root2 == ((-half_b - sqrtd) * TUnit) \div a
            found == Range_contains(range, root1) \/ Range_contains(range, root2)
            root == IF Range_contains(range, root1) THEN root1 ELSE root2
            point == at(ray, root)
            outward_normal ==
                VScale(Sign(self.radius), VSub(point, VScale(TUnit, self.center)))
            hit_record == [point |-> point, normal |-> outward_normal, t |-> root,
                           front_face |-> FALSE, material |-> self.material]
        IN  IF ~found THEN None
            ELSE set_face_normal(hit_record, ray, outward_normal)

\* Sphere::hit.  root is in 1/TUnit; the normal (point - center) * radius_recip
\* is kept in units of 1/(TUnit * |radius|), so only its length is rescaled.
Sphere_hit(self, ray, range) ==
    LET oc == VSub(ray.origin, self.center)
        a == len_squared(ray.direction)
        half_b == dot(oc, ray.direction)
        c == len_squared(oc) - self.radius * self.radius
        discriminant == half_b * half_b - a * c
    IN  IF discriminant < 0 THEN None
        \* a = 0: a_recip is infinite, both roots are NaN and no range holds NaN
        ELSE IF a = 0 THEN None
        ELSE
        LET sqrtd == ISqrt(discriminant)
            root1 == ((-half_b - sqrtd) * TUnit) \div a
            root2 == ((-half_b + sqrtd) * TUnit) \div a
            found == Range_contains(range, root1) \/ Range_contains(range, root2)
            root == IF Range_contains(range, root1) THEN root1 ELSE root2
            point == at(ray, root)
            outward_normal ==
                VScale(Sign(self.radius), VSub(point, VScale(TUnit, self.center)))
            hit_record == [point |-> point, normal |-> outward_normal, t |-> root,
                           front_face |-> FALSE, material |-> self.material]
        IN  IF ~found THEN None
            ELSE set_face_normal(hit_record, ray, outward_normal)

\* One iteration of the loop of HittableList::hit: st = <<closest_so_far, rec>>.
HitStepNoNarrow(st, object, ray, range) ==
    LET record == Sphere_hit(object, ray, range)
    IN  IF record # None THEN <<record.t, record>> ELSE st

HitStep(st, object, ray, range) ==
    LET record == Sphere_hit(object, ray, [start |-> range.start, end |-> st[1]])
    IN  IF record # None THEN <<record.t, record>> ELSE st

RECURSIVE HitLoop(_, _, _, _, _)
HitLoop(st, objs, i, ray, range) ==
    IF i > Len(objs) THEN st
    ELSE HitLoop(HitStep(st, objs[i], ray, range), objs, i + 1, ray, range)

\* HittableList::hit
HittableList_hit(objs, ray, range) == HitLoop(<<range.end, None>>, objs, 1, ray, range)[2]

-----------------------------------------------------------------------------
(* Inputs of the intersection protocol *)

SphereSet ==
    { [center |-> <<3, 0, 0>>, radius |-> 1, material |-> "ground"],
      [center |-> <<3, 0, 0>>, radius |-> 1, material |-> "glass"],
      [center |-> <<5, 0, 0>>, radius |-> 2, material |-> "metal"],
      [center |-> <<4, 0, 0>>, radius |-> -1, material |-> "glass"],
      [center |-> <<4, 1, 0>>, radius |-> 2, material |-> "ground"] }

RaySet ==
    { Ray(<<0, 0, 0>>, <<1, 0, 0>>), Ray(<<0, 0, 0>>, <<2, 0, 0>>),
      Ray(<<4, 0, 0>>, <<1, 0, 0>>), Ray(<<8, 0, 0>>, <<-1, 0, 0>>),
      Ray(<<4, 3, 0>>, <<0, -1, 0>>), Ray(<<0, 3, 0>>, <<1, 0, 0>>) }

RangeSet ==
    { [start |-> s, end |-> e] : s \in {1, 3 * TUnit},
                                 e \in {3 * TUnit, 6 * TUnit, F32_INFINITY} }

SeqsUpTo(S, n) == UNION { [1..k -> S] : k \in 0..n }

IdleHit ==
    /\ objects = <<>>
    /\ r = None
    /\ ray_t = None
    /\ rec = None
    /\ hit_pc = "idle"

IdleTrace ==
    /\ cur_ray = None
    /\ depth = 0
    /\ stack = <<>>
    /\ color = NoColor
    /\ trace_pc = "idle"
    /\ hit_tests = 0
    /\ call_depth = 0
    /\ path = <<>>

IdlePpm ==
    /\ ppm_color = Black
    /\ ppm_samples = 1
    /\ ppm_line = None

IdleRender ==
    /\ image_width = 1
    /\ image_height = 1
    /\ samples_per_pixel = 1
    /\ buffer = <<>>
    /\ pending = {}
    /\ worker = <<>>
    /\ output = <<>>
    /\ emit_idx = 0
    /\ render_pc = "idle"
    /\ write_calls = 0
    /\ failed_at = 0
    /\ traced = <<>>
    /\ slot_writes = <<>>

IdleBuild ==
    /\ builder = None
    /\ last_set = None
    /\ camera = None
    /\ build_pc = "idle"

IdleFace ==
    /\ face_ray = None
    /\ face_outward = Black
    /\ face_record = None
    /\ face_pc = "idle"

IdleDiel ==
    /\ diel_ior = None
    /\ diel_ray = None
    /\ diel_record = None
    /\ diel_random = 0
    /\ diel_out = <<>>

IdleScat ==
    /\ scat_material = None
    /\ scat_ray = None
    /\ scat_record = None
    /\ scat_unit = <<0, 0, 0>>
    /\ scat_out = <<>>
    /\ scat_pc = "idle"

InitHit ==
    /\ IdleFace
    /\ IdleDiel
    /\ IdleScat
    /\ IdleTrace
    /\ IdlePpm
    /\ IdleRender
    /\ IdleBuild
    /\ objects \in SeqsUpTo(SphereSet, MaxObjects)
    /\ r \in RaySet
    /\ ray_t \in RangeSet
    /\ rec = None
    /\ hit_pc = "call"
    /\ sum_neutral_neg \in BOOLEAN

\* world.hit(r, ray_t) on a HittableList.
Hit ==
    /\ hit_pc = "call"
    /\ rec' = HittableList_hit(objects, r, ray_t)
    /\ hit_pc' = "done"
    /\ UNCHANGED <<objects, r, ray_t, sum_neutral_neg>>
    /\ UNCHANGED <<traceVars, ppmVars, renderVars, buildVars, faceVars, dielVars, scatVars>>

NextHit == Hit

SpecHit == InitHit /\ [][NextHit]_vars

\* The hits the members report for the original interval.
MemberHits == { Sphere_hit(objects[i], r, ray_t) : i \in 1..Len(objects) } \ {None}

\* C1: HittableList::hit returns a hit iff some member reports a hit inside the
\* original interval, and the returned t is the minimum t over the members' hits
\* in that interval.
C1_NearestHit ==
    hit_pc = "done" =>
        /\ (rec # None) <=> (MemberHits # {})
        /\ rec # None =>
               /\ rec \in MemberHits
               /\ \A h \in MemberHits : rec.t <= h.t

\* Two members hit at different t, the nearer one inserted after the farther one.
C1_Witness ==
    /\ hit_pc = "done"
    /\ rec # None
    /\ \E i, j \in 1..Len(objects) :
           /\ i < j
           /\ Sphere_hit(objects[i], r, ray_t) # None
           /\ Sphere_hit(objects[j], r, ray_t) # None
           /\ Sphere_hit(objects[j], r, ray_t).t < Sphere_hit(objects[i], r, ray_t).t

\* The quadratic of the ray r against the only member of the list.
Discriminant ==
    LET oc == VSub(r.origin, objects[1].center)
    IN  dot(oc, r.direction) * dot(oc, r.direction)
            - len_squared(r.direction)
                  * (len_squared(oc) - objects[1].radius * objects[1].radius)

\* (-half_b - sqrt(disc)) / a
SmallerRoot ==
    ((-dot(VSub(r.origin, objects[1].center), r.direction) - ISqrt(Discriminant)) * TUnit)
        \div len_squared(r.direction)

\* (-half_b + sqrt(disc)) / a
LargerRoot ==
    ((-dot(VSub(r.origin, objects[1].center), r.direction) + ISqrt(Discriminant)) * TUnit)
        \div len_squared(r.direction)

InRange(t) == ray_t.start <= t /\ t < ray_t.end

\* C12: Sphere::hit returns no hit when the discriminant is negative; otherwise
\* the smaller root if it lies in the interval, else the larger root if that
\* lies in the interval, else no hit.  A returned t lies in the interval, and a
\* ray starting inside the sphere is hit only at the far boundary.
C12_RootSelection ==
    (hit_pc = "done" /\ Len(objects) = 1) =>
        /\ Discriminant < 0 => rec = None
        /\ Discriminant >= 0 =>
               IF InRange(SmallerRoot) THEN rec # None /\ rec.t = SmallerRoot
               ELSE IF InRange(LargerRoot) THEN rec # None /\ rec.t = LargerRoot
               ELSE rec = None
        /\ rec # None => InRange(rec.t)
        /\ (Discriminant >= 0 /\ SmallerRoot < 0 /\ ray_t.start >= 0 /\ rec # None) =>
               rec.t = LargerRoot

\* A ray starting inside the sphere, hit at the far boundary.
C12_Witness ==
    /\ hit_pc = "done"
    /\ Len(objects) = 1
    /\ Discriminant > 0
    /\ SmallerRoot < 0
    /\ rec # None
    /\ rec.t = LargerRoot
    /\ rec.t > 0

\* The members whose hit for the original interval is at the returned t.
NearestMembers ==
    { i \in 1..Len(objects) :
          /\ Sphere_hit(objects[i], r, ray_t) # None
          /\ Sphere_hit(objects[i], r, ray_t).t = rec.t }

\* C15: each member is queried with [start, closest_so_far), so a later member
\* replaces the kept hit only when its t is strictly smaller: when several
\* members report the same minimal t, the returned record is that of the
\* member inserted earliest.
C15_EarliestOfEqualHits ==
    (hit_pc = "done" /\ rec # None) =>
        /\ NearestMembers # {}
        /\ \A i \in NearestMembers :
               (\A j \in NearestMembers : i <= j) =>
                   rec = Sphere_hit(objects[i], r, ray_t)

\* Two members of different materials hit at the same minimal t: the record of
\* the earlier one is returned, not that of the later one.
C15_Witness ==
    /\ hit_pc = "done"
    /\ rec # None
    /\ \E i, j \in NearestMembers :
           /\ i < j
           /\ \A k \in NearestMembers : i <= k
           /\ Sphere_hit(objects[i], r, ray_t) # Sphere_hit(objects[j], r, ray_t)
           /\ rec = Sphere_hit(objects[i], r, ray_t)
           /\ rec.material # Sphere_hit(objects[j], r, ray_t).material

-----------------------------------------------------------------------------
(* Camera::ray_color (camera.rs) *)

\* Colours are in units of 1/(2 * NormUnit)^2; attenuations are whole numbers,
\* so a component-wise product of an attenuation and a colour is exact.
\* Color * Color (vec3.rs, Mul<Vec3> for Vec3), attenuation first.
Attenuate(attenuation, c) ==
    <<attenuation[1] * c[1], attenuation[2] * c[2], attenuation[3] * c[3]>>

\* The background of ray_color: (1 - a) * color_1 + a * color_2 with
\* a = 0.5 * (unit_direction.y + 1); a, color_1 and color_2 in 1/(2 * NormUnit).
Background(ray) ==
    LET unit_direction == normalize(ray.direction)
        a == unit_direction[2] + NormUnit
        color_1 == <<2 * NormUnit, 2 * NormUnit, 2 * NormUnit>>    \* (1.0, 1.0, 1.0)
        color_2 == <<NormUnit, (14 * NormUnit) \div 10, 2 * NormUnit>>  \* (0.5, 0.7, 1.0)
    IN  VAdd(VScale(2 * NormUnit - a, color_1), VScale(a, color_2))

\* Rays a camera or a material may produce, and attenuations a material may return.
TraceRaySet ==
    { Ray(<<0, 0, 0>>, d) : d \in {<<0, 1, 0>>, <<0, -2, 0>>, <<3, 4, 0>>} }

AttenuationSet == { <<1, 1, 1>>, <<0, 1, 2>>, <<2, 0, 1>> }

InitTrace ==
    /\ IdleFace
    /\ IdleDiel
    /\ IdleScat
    /\ IdleHit
    /\ IdlePpm
    /\ IdleRender
    /\ IdleBuild
    /\ sum_neutral_neg = FALSE
    /\ cur_ray \in TraceRaySet
    /\ depth \in 1..MaxDepth
    /\ call_depth = depth
    /\ stack = <<>>
    /\ color = NoColor
    /\ trace_pc = "call"
    /\ hit_tests = 0
    /\ path = <<>>

\* depth == 0: return black.
RayColorBlackAfterHit ==
    /\ trace_pc = "call"
    /\ depth = 0
    /\ hit_tests' = hit_tests + 1
    /\ color' = Black
    /\ trace_pc' = "return"
    /\ path' = Append(path, [ray |-> cur_ray, outcome |-> "depth"])
    /\ UNCHANGED <<cur_ray, depth, stack, call_depth>>

RayColorBlack ==
    /\ trace_pc = "call"
    /\ depth = 0
    /\ color' = Black
    /\ trace_pc' = "return"
    /\ path' = Append(path, [ray |-> cur_ray, outcome |-> "depth"])
    /\ UNCHANGED <<cur_ray, depth, stack, hit_tests, call_depth>>

\* world.hit returns None: the background gradient.
RayColorMiss ==
    /\ trace_pc = "call"
    /\ depth # 0
    /\ hit_tests' = hit_tests + 1
    /\ color' = Background(cur_ray)
    /\ trace_pc' = "return"
    /\ path' = Append(path, [ray |-> cur_ray, outcome |-> "miss"])
    /\ UNCHANGED <<cur_ray, depth, stack, call_depth>>

\* world.hit returns a record whose material's scatter returns None.
RayColorAbsorb ==
    /\ trace_pc = "call"
    /\ depth # 0
    /\ hit_tests' = hit_tests + 1
    /\ color' = Black
    /\ trace_pc' = "return"
    /\ path' = Append(path, [ray |-> cur_ray, outcome |-> "absorb"])
    /\ UNCHANGED <<cur_ray, depth, stack, call_depth>>

\* world.hit returns a record whose material's scatter returns
\* Some((scattered, attenuation)): recurse with depth - 1.
RayColorScatter ==
    /\ trace_pc = "call"
    /\ depth # 0
    /\ \E scattered \in TraceRaySet, attenuation \in AttenuationSet :
           /\ hit_tests' = hit_tests + 1
           /\ stack' = Append(stack, attenuation)
           /\ cur_ray' = scattered
           /\ depth' = depth - 1
           /\ path' = Append(path, [ray |-> cur_ray, outcome |-> "scatter",
                                    attenuation |-> attenuation])
    /\ UNCHANGED <<color, trace_pc, call_depth>>

\* A recursive call returns to `return attenuation * self.ray_color(...)`.
RayColorReturnUnattenuated ==
    /\ trace_pc = "return"
    /\ stack # <<>>
    /\ stack' = SubSeq(stack, 1, Len(stack) - 1)
    /\ depth' = depth + 1
    /\ UNCHANGED <<color, cur_ray, trace_pc, hit_tests, call_depth, path>>

RayColorReturn ==
    /\ trace_pc = "return"
    /\ stack # <<>>
    /\ color' = Attenuate(stack[Len(stack)], color)
    /\ stack' = SubSeq(stack, 1, Len(stack) - 1)
    /\ depth' = depth + 1
    /\ UNCHANGED <<cur_ray, trace_pc, hit_tests, call_depth, path>>

\* The outermost call returns to its caller.
RayColorDone ==
    /\ trace_pc = "return"
    /\ stack = <<>>
    /\ trace_pc' = "done"
    /\ UNCHANGED <<cur_ray, depth, stack, color, hit_tests, call_depth, path>>

NextTrace ==
    /\ \/ RayColorBlack
       \/ RayColorMiss
       \/ RayColorAbsorb
       \/ RayColorScatter
       \/ RayColorReturn
       \/ RayColorDone
    /\ UNCHANGED <<hitVars, sum_neutral_neg, ppmVars, renderVars, buildVars, faceVars,
                   dielVars, scatVars>>

\* ray_color is sequential code: a step that can be taken is taken.
SpecTrace == InitTrace /\ [][NextTrace]_vars /\ WF_vars(NextTrace)

\* C2: ray_color terminates, makes at most `depth` world.hit calls along the
\* path, and a call with depth == 0 returns black without a hit test.
C2_BoundedTrace ==
    /\ [](hit_tests <= call_depth)
    /\ [][(trace_pc = "call" /\ depth = 0) =>
              (trace_pc' = "return" /\ color' = Black /\ hit_tests' = hit_tests)]_vars
    /\ <>(trace_pc = "done")

\* A path that scattered at every level and ran into depth == 0.
C2_Witness ==
    /\ trace_pc = "done"
    /\ call_depth = MaxDepth
    /\ hit_tests = call_depth
    /\ path[Len(path)].outcome = "depth"

\* The explicit loop: an accumulated attenuation product and a remaining-depth
\* counter, run against the answers the world gave (path).
RECURSIVE IterativeColor(_, _, _)
IterativeColor(acc, remaining, k) ==
    IF remaining = 0 THEN Black
    ELSE IF path[k].outcome = "miss" THEN Attenuate(acc, Background(path[k].ray))
    ELSE IF path[k].outcome = "absorb" THEN Black
    ELSE IterativeColor(Attenuate(acc, path[k].attenuation), remaining - 1, k + 1)

\* The terminal colour of the path.
TerminalColor ==
    LET last == path[Len(path)]
    IN  IF last.outcome = "miss" THEN Background(last.ray) ELSE Black

RECURSIVE AttenuationProduct(_)
AttenuationProduct(k) ==
    IF k >= Len(path) THEN <<1, 1, 1>>
    ELSE Attenuate(path[k].attenuation, AttenuationProduct(k + 1))

-----------------------------------------------------------------------------
(* Color::write_ppm (vec3.rs) and Range::clamp (util.rs) *)

\* Accumulated colours are in units of 1/SumUnit; gamma-corrected intensities
\* in units of 1/GammaUnit.  An f32 that may be NaN is [nan, v].
SumUnit == 100

GammaUnit == 1000

Num(v) == [nan |-> FALSE, v |-> v]

NaN == [nan |-> TRUE, v |-> 0]

\* f32 comparisons: false whenever an operand is NaN.
F32Lt(x, y) == ~x.nan /\ ~y.nan /\ x.v < y.v

F32Gt(x, y) == F32Lt(y, x)

\* linear_to_gamma(self.x() * scale) with scale = 1 / samples: the square root
\* of channel / samples, in 1/GammaUnit; NaN for a negative operand.
linear_to_gamma(channel, samples) ==
    IF channel < 0 THEN NaN
    ELSE Num(ISqrt((channel * ((GammaUnit * GammaUnit) \div SumUnit)) \div samples))

\* Range::clamp
Range_clamp_swapped(self, value) ==
    IF F32Lt(value, self.start) THEN self.end
    ELSE IF F32Gt(value, self.end) THEN self.start
    ELSE value

Range_clamp(self, value) ==
    IF F32Lt(value, self.start) THEN self.start
    ELSE IF F32Gt(value, self.end) THEN self.end
    ELSE value

\* static INTENSITY: Range<f32> = Range::new(0.0, 0.999)
INTENSITY == [start |-> Num(0), end |-> Num(999)]

\* (256.0 * x) as u8: the cast truncates, saturates and sends NaN to 0.
ToU8(x) ==
    IF x.nan THEN 0
    ELSE LET m == (256 * x.v) \div GammaUnit
         IN  IF x.v < 0 THEN 0 ELSE IF m > 255 THEN 255 ELSE m

\* The line write_ppm formats: "{r} {g} {b}".
write_ppm(self, samples) ==
    [k \in 1..3 |-> ToU8(Range_clamp(INTENSITY, linear_to_gamma(self[k], samples)))]

ChannelSet == {-100, 0, 25, 50, 75, 100, 300}

InitPpm ==
    /\ IdleFace
    /\ IdleDiel
    /\ IdleScat
    /\ IdleHit
    /\ IdleTrace
    /\ IdleRender
    /\ IdleBuild
    /\ sum_neutral_neg = FALSE
    /\ ppm_samples \in 1..MaxSamples
    /\ ppm_color \in [1..3 -> ChannelSet]
    /\ ppm_line = None

WritePpm ==
    /\ ppm_line = None
    /\ ppm_line' = write_ppm(ppm_color, ppm_samples)
    /\ UNCHANGED <<ppm_color, ppm_samples>>
    /\ UNCHANGED <<hitVars, sum_neutral_neg, traceVars, renderVars, buildVars, faceVars,
                   dielVars, scatVars>>

NextPpm == WritePpm

SpecPpm == InitPpm /\ [][NextPpm]_vars

\* C8: write_ppm emits three integers in [0, 255]; a channel whose average is
\* >= 1 emits 255, one whose average is 0 emits 0, and the square root shows
\* between the two: an average of 1/4 emits 128 (= 256 * 0.5).
C8_PpmChannels ==
    ppm_line # None =>
        \A k \in 1..3 :
            /\ ppm_line[k] \in 0..255
            /\ ppm_color[k] >= SumUnit * ppm_samples => ppm_line[k] = 255
            /\ ppm_color[k] = 0 => ppm_line[k] = 0
            /\ 4 * ppm_color[k] = SumUnit * ppm_samples => ppm_line[k] = 128

\* One line with a saturated channel, a zero channel and a channel in between,
\* from more than one sample.
C8_Witness ==
    /\ ppm_line # None
    /\ ppm_samples > 1
    /\ ppm_color[1] > SumUnit * ppm_samples
    /\ ppm_color[2] = 0
    /\ 4 * ppm_color[3] = SumUnit * ppm_samples
    /\ ppm_line = <<255, 0, 128>>

-----------------------------------------------------------------------------
(* Camera::render_to_io (camera.rs) *)

\* What the sampling loop of one pixel returns: the sum over the samples of
\* ray_color(get_ray(i, j)).  The scene and the random draws are held fixed, so
\* that the colour tells which pixel it was traced for (in 1/SumUnit).
PixelSum(i, j, samples) ==
    <<samples * ((30 * i) % 130), samples * ((40 * j) % 130), samples * 50>>

\* The closure of .map(): index -> (i, j, dest).
PixelOfIndexTransposed(index, width) ==
    [i |-> index \div width, j |-> index % width, dest |-> index]

PixelOfIndex(index, width) ==
    [i |-> index % width, j |-> index \div width, dest |-> index]

num_pixels == image_width * image_height

Indices == 0..(num_pixels - 1)

Workers == 1..NumWorkers

ImageSizes == { wh \in (1..MaxPixels) \X (1..MaxPixels) : wh[1] * wh[2] <= MaxPixels }

\* The header write!() of render_to_io.
Header == <<"P3", image_width, image_height, 255>>

InitRender ==
    /\ IdleFace
    /\ IdleDiel
    /\ IdleScat
    /\ IdleHit
    /\ IdleTrace
    /\ IdlePpm
    /\ IdleBuild
    /\ sum_neutral_neg = FALSE
    /\ \E wh \in ImageSizes : image_width = wh[1] /\ image_height = wh[2]
    /\ samples_per_pixel \in 1..MaxSamples
    /\ buffer = <<>>
    /\ pending = {}
    /\ worker = [w \in Workers |-> None]
    /\ output = <<>>
    /\ emit_idx = 0
    /\ render_pc = "header"
    /\ write_calls = 0
    /\ failed_at = 0
    /\ traced = <<>>
    /\ slot_writes = <<>>

\* write!(output, "P3\n{} {}\n255\n", ...)? succeeds; the buffer is allocated
\* and handed to par_iter_mut.
WriteHeaderOk ==
    /\ render_pc = "header"
    /\ write_calls' = write_calls + 1
    /\ output' = Append(output, Header)
    /\ buffer' = [index \in Indices |-> Black]
    /\ pending' = Indices
    /\ traced' = [index \in Indices |-> 0]
    /\ slot_writes' = [index \in Indices |-> 0]
    /\ render_pc' = "render"
    /\ UNCHANGED <<image_width, image_height, samples_per_pixel, worker, emit_idx,
                   failed_at>>

\* The header write fails: `?` returns the error.
WriteHeaderErr ==
    /\ render_pc = "header"
    /\ write_calls' = write_calls + 1
    /\ failed_at' = write_calls + 1
    /\ render_pc' = "err"
    /\ UNCHANGED <<image_width, image_height, samples_per_pixel, buffer, pending,
                   worker, output, emit_idx, traced, slot_writes>>

\* A worker receives the next item of par_iter_mut().enumerate().map(...).
StartPixelKeepPending(w) ==
    /\ render_pc = "render"
    /\ worker[w] = None
    /\ \E index \in pending :
           /\ traced[index] < 2
           /\ worker' = [worker EXCEPT ![w] = PixelOfIndex(index, image_width)]
    /\ UNCHANGED <<image_width, image_height, samples_per_pixel, buffer, pending, output,
                   emit_idx, render_pc, write_calls, failed_at, traced, slot_writes>>

StartPixel(w) ==
    /\ render_pc = "render"
    /\ worker[w] = None
    /\ \E index \in pending :
           /\ worker' = [worker EXCEPT ![w] = PixelOfIndex(index, image_width)]
           /\ pending' = pending \ {index}
    /\ UNCHANGED <<image_width, image_height, samples_per_pixel, buffer, output,
                   emit_idx, render_pc, write_calls, failed_at, traced, slot_writes>>

\* The closure of for_each: trace the samples of (i, j), assign *dest.
RenderPixel(w) ==
    /\ render_pc = "render"
    /\ worker[w] # None
    /\ LET item == worker[w]
       IN  /\ buffer' = [buffer EXCEPT
                            ![item.dest] = PixelSum(item.i, item.j, samples_per_pixel)]
           /\ traced' = [traced EXCEPT ![item.dest] = @ + 1]
           /\ slot_writes' = [slot_writes EXCEPT ![item.dest] = @ + 1]
    /\ worker' = [worker EXCEPT ![w] = None]
    /\ UNCHANGED <<image_width, image_height, samples_per_pixel, pending, output,
                   emit_idx, render_pc, write_calls, failed_at>>

\* for_each returning while items are still pending.
JoinWorkersEarly ==
    /\ render_pc = "render"
    /\ \A w \in Workers : worker[w] = None
    /\ render_pc' = "emit"
    /\ emit_idx' = 0
    /\ UNCHANGED <<image_width, image_height, samples_per_pixel, buffer, pending, worker,
                   output, write_calls, failed_at, traced, slot_writes>>

\* for_each returns once every item has been processed.
JoinWorkers ==
    /\ render_pc = "render"
    /\ pending = {}
    /\ \A w \in Workers : worker[w] = None
    /\ render_pc' = "emit"
    /\ emit_idx' = 0
    /\ UNCHANGED <<image_width, image_height, samples_per_pixel, buffer, pending, worker,
                   output, write_calls, failed_at, traced, slot_writes>>

\* color.write_ppm(output, self.samples_per_pixel)? succeeds.
WritePixelOk ==
    /\ render_pc = "emit"
    /\ emit_idx < num_pixels
    /\ write_calls' = write_calls + 1
    /\ output' = Append(output, write_ppm(buffer[emit_idx], samples_per_pixel))
    /\ emit_idx' = emit_idx + 1
    /\ UNCHANGED <<image_width, image_height, samples_per_pixel, buffer, pending, worker,
                   render_pc, failed_at, traced, slot_writes>>

\* color.write_ppm(...)? fails: `?` returns the error.
WritePixelErrIgnored ==
    /\ render_pc = "emit"
    /\ emit_idx < num_pixels
    /\ write_calls' = write_calls + 1
    /\ failed_at' = IF failed_at = 0 THEN write_calls + 1 ELSE failed_at
    /\ emit_idx' = emit_idx + 1
    /\ UNCHANGED <<image_width, image_height, samples_per_pixel, buffer, pending, worker,
                   output, render_pc, traced, slot_writes>>

WritePixelErr ==
    /\ render_pc = "emit"
    /\ emit_idx < num_pixels
    /\ write_calls' = write_calls + 1
    /\ failed_at' = write_calls + 1
    /\ render_pc' = "err"
    /\ UNCHANGED <<image_width, image_height, samples_per_pixel, buffer, pending, worker,
                   output, emit_idx, traced, slot_writes>>

\* The loop over the buffer is over: Ok(()).
RenderOk ==
    /\ render_pc = "emit"
    /\ emit_idx = num_pixels
    /\ render_pc' = "ok"
    /\ UNCHANGED <<image_width, image_height, samples_per_pixel, buffer, pending, worker,
                   output, emit_idx, write_calls, failed_at, traced, slot_writes>>

NextRender ==
    /\ \/ WriteHeaderOk
       \/ WriteHeaderErr
       \/ \E w \in Workers : StartPixel(w)
       \/ \E w \in Workers : RenderPixel(w)
       \/ JoinWorkers
       \/ WritePixelOk
       \/ WritePixelErr
       \/ RenderOk
    /\ UNCHANGED <<hitVars, sum_neutral_neg, traceVars, ppmVars, buildVars, faceVars,
                   dielVars, scatVars>>

SpecRender == InitRender /\ [][NextRender]_vars

\* C4: a successful render_to_io emits, after the header, exactly
\* image_width * image_height pixel lines, and line k (from 0) is the colour
\* computed for column k mod image_width and row k div image_width.
C4_RowMajorOutput ==
    render_pc = "ok" =>
        /\ Len(output) = 1 + image_width * image_height
        /\ output[1] = Header
        /\ \A k \in 0..(image_width * image_height - 1) :
               output[k + 2] =
                   write_ppm(PixelSum(k % image_width, k \div image_width,
                                      samples_per_pixel),
                             samples_per_pixel)

\* A finished render of an image with more than one row and more than one column.
C4_Witness ==
    /\ render_pc = "ok"
    /\ image_width > 1
    /\ image_height > 1
    /\ output[2] # output[3]
    /\ output[2] # output[2 + image_width]

\* C5: each pixel is traced by one worker and its slot assigned once; workers
\* never hold the same slot, whatever the interleaving.
C5_DisjointSlots ==
    render_pc \in {"render", "emit", "ok", "err"} /\ write_calls > 0 /\ buffer # <<>> =>
        /\ \A index \in Indices : traced[index] <= 1 /\ slot_writes[index] <= 1
        /\ \A w1, w2 \in Workers :
               (w1 # w2 /\ worker[w1] # None /\ worker[w2] # None)
                   => worker[w1].dest # worker[w2].dest
        /\ \A w \in Workers :
               worker[w] # None =>
                   /\ worker[w].dest \in Indices \ pending
                   /\ traced[worker[w].dest] = 0
                   /\ worker[w].i \in 0..(image_width - 1)
                   /\ worker[w].j \in 0..(image_height - 1)
                   /\ worker[w].dest = worker[w].j * image_width + worker[w].i
        /\ render_pc \in {"emit", "ok"} =>
               \A index \in Indices : traced[index] = 1 /\ slot_writes[index] = 1

\* Two workers hold different pixels at the same time while others are done.
C5_Witness ==
    /\ render_pc = "render"
    /\ \E w1, w2 \in Workers :
           /\ w1 # w2
           /\ worker[w1] # None
           /\ worker[w2] # None
    /\ \E index \in Indices : slot_writes[index] = 1

\* C7: when a write to the stream fails, render_to_io returns that failure,
\* writes nothing more and traces no pixel again.
C7_FailFast ==
    /\ render_pc = "err" <=> failed_at # 0
    /\ failed_at # 0 =>
           /\ write_calls = failed_at
           /\ Len(output) = failed_at - 1
           /\ buffer # <<>> => \A index \in Indices : traced[index] = 1
           /\ buffer = <<>> => failed_at = 1

\* The write of a pixel line after the first one failed.
C7_Witness ==
    /\ render_pc = "err"
    /\ failed_at > 2
    /\ failed_at < 1 + num_pixels

\* Some pixel has been traced.
SomePixelTraced == traced # <<>> /\ \E index \in Indices : traced[index] > 0

\* Every pixel of the image has been computed.
AllPixelsTraced == traced # <<>> /\ \A index \in Indices : traced[index] = 1

\* C16: the header is written before any pixel is traced and no pixel line is
\* written before every pixel has been computed: a failed header write returns
\* with nothing traced, and a failed write of pixel line k (from 0) happens
\* with every pixel computed and leaves the header and the k lines before it.
C16_HeaderThenRenderThenEmit ==
    /\ SomePixelTraced => (Len(output) >= 1 /\ output[1] = Header)
    /\ Len(output) > 1 => AllPixelsTraced
    /\ (render_pc = "err" /\ failed_at = 1) => (~SomePixelTraced /\ output = <<>>)
    /\ (render_pc = "err" /\ failed_at > 1) =>
           /\ AllPixelsTraced
           /\ emit_idx = failed_at - 2
           /\ Len(output) = 1 + emit_idx
           /\ output[1] = Header
           /\ \A k \in 0..(emit_idx - 1) :
                  output[k + 2] = write_ppm(buffer[k], samples_per_pixel)

\* The write of a pixel line other than the first fails, in an image of more
\* than two pixels.
C16_Witness ==
    /\ render_pc = "err"
    /\ failed_at > 2
    /\ num_pixels > 2
    /\ emit_idx = failed_at - 2
    /\ Len(output) = failed_at - 1
    /\ AllPixelsTraced

-----------------------------------------------------------------------------
(* CameraBuilder and impl From<CameraBuilder> for Camera (camera.rs) *)

\* Option<T>: <<>> is None, <<x>> is Some(x).
Nothing == <<>>

Some(x) == <<x>>

\* NonZeroU32::new / NonZeroU64::new: None for 0, Some(n) otherwise.
NonZero_new_unchecked(n) == Some(n)

NonZero_new(n) == IF n = 0 THEN Nothing ELSE Some(n)

\* Option::unwrap_or_else / Option::unwrap_or
unwrap_or_else(opt, default) == IF opt = Nothing THEN default ELSE opt[1]

\* u64::MAX, what `as u64` gives for +infinity (scaled to TLC's integers).
U64_MAX == 2147483647

\* An aspect ratio: NaN, or the f32 num / den with den > 0 (num = 0 is +0.0).
Ratio(num, den) == [nan |-> FALSE, num |-> num, den |-> den]

AspectRatioSet ==
    { Ratio(1, 1), Ratio(16, 9), Ratio(1, 2), Ratio(3, 1), Ratio(0, 1), Ratio(-1, 1),
      [nan |-> TRUE, num |-> 0, den |-> 1] }

\* (u64::from(image_width) as f32 / aspect_ratio) as u64: the cast truncates,
\* saturates, and sends NaN and negative values to 0.
HeightCast(width, aspect_ratio) ==
    IF aspect_ratio.nan THEN 0
    ELSE IF aspect_ratio.num = 0 THEN U64_MAX
    ELSE IF aspect_ratio.num < 0 THEN 0
    ELSE (width * aspect_ratio.den) \div aspect_ratio.num

Max(x, y) == IF x >= y THEN x ELSE y

InitBuild ==
    /\ IdleFace
    /\ IdleDiel
    /\ IdleScat
    /\ IdleHit
    /\ IdleTrace
    /\ IdlePpm
    /\ IdleRender
    /\ sum_neutral_neg = FALSE
    \* CameraBuilder::default()
    /\ builder = [aspect_ratio |-> Nothing, samples_per_pixel |-> Nothing,
                  image_width |-> Nothing, max_depth |-> Nothing]
    /\ last_set = [samples_per_pixel |-> Nothing, image_width |-> Nothing,
                   max_depth |-> Nothing]
    /\ camera = None
    /\ build_pc = "building"

with_aspect_ratio(aspect_ratio) ==
    /\ build_pc = "building"
    /\ builder' = [builder EXCEPT !.aspect_ratio = Some(aspect_ratio)]
    /\ UNCHANGED <<last_set, camera, build_pc>>

with_image_width(width) ==
    /\ build_pc = "building"
    /\ builder' = [builder EXCEPT !.image_width = NonZero_new(width)]
    /\ last_set' = [last_set EXCEPT !.image_width = Some(width)]
    /\ UNCHANGED <<camera, build_pc>>

with_samples_per_pixel(samples) ==
    /\ build_pc = "building"
    /\ builder' = [builder EXCEPT !.samples_per_pixel = NonZero_new(samples)]
    /\ last_set' = [last_set EXCEPT !.samples_per_pixel = Some(samples)]
    /\ UNCHANGED <<camera, build_pc>>

with_recursion_depth(d) ==
    /\ build_pc = "building"
    /\ builder' = [builder EXCEPT !.max_depth = NonZero_new(d)]
    /\ last_set' = [last_set EXCEPT !.max_depth = Some(d)]
    /\ UNCHANGED <<camera, build_pc>>

\* CameraBuilder::build = Camera::from(self); the fields that do not depend on
\* the validated counts (the viewport vectors) are left out.
build ==
    /\ build_pc = "building"
    /\ LET aspect_ratio == unwrap_or_else(builder.aspect_ratio, Ratio(1, 1))
           samples == unwrap_or_else(builder.samples_per_pixel, 10)
           max_depth == unwrap_or_else(builder.max_depth, 10)
           width == unwrap_or_else(builder.image_width, 100)
           height == NonZero_new(Max(HeightCast(width, aspect_ratio), 1))
       IN  \* .expect("Image width is zero") panics on None
           IF height = Nothing
           THEN /\ build_pc' = "panic"
                /\ camera' = None
           ELSE /\ build_pc' = "built"
                /\ camera' = [samples_per_pixel |-> samples, max_depth |-> max_depth,
                              image_width |-> width, image_height |-> height[1]]
    /\ UNCHANGED <<builder, last_set>>

NextBuild ==
    /\ \/ \E a \in AspectRatioSet : with_aspect_ratio(a)
       \/ \E n \in 0..MaxSetterArg : with_image_width(n)
       \/ \E n \in 0..MaxSetterArg : with_samples_per_pixel(n)
       \/ \E n \in 0..MaxSetterArg : with_recursion_depth(n)
       \/ build
    /\ UNCHANGED <<hitVars, sum_neutral_neg, traceVars, ppmVars, renderVars, faceVars,
                   dielVars, scatVars>>

SpecBuild == InitBuild /\ [][NextBuild]_vars

\* The value a count ends with: the default when the setter was never called
\* or was last called with 0.
Defaulted(last, default) ==
    IF last = Nothing \/ last = Some(0) THEN default ELSE last[1]

\* C6: after any sequence of setter calls, build() does not fail and returns a
\* camera whose image_width, samples_per_pixel, max_depth and image_height are
\* all >= 1; an unset or zero width becomes 100, unset or zero samples or depth
\* become 10.
C6_BuildDefaults ==
    /\ build_pc # "panic"
    /\ build_pc = "built" =>
           /\ camera.image_width >= 1
           /\ camera.samples_per_pixel >= 1
           /\ camera.max_depth >= 1
           /\ camera.image_height >= 1
           /\ camera.image_width = Defaulted(last_set.image_width, 100)
           /\ camera.samples_per_pixel = Defaulted(last_set.samples_per_pixel, 10)
           /\ camera.max_depth = Defaulted(last_set.max_depth, 10)

\* A camera built after the width and the samples were last set to 0, the
\* depth to a positive value, and an aspect ratio wider than the image.
C6_Witness ==
    /\ build_pc = "built"
    /\ last_set.image_width = Some(0)
    /\ last_set.samples_per_pixel = Some(0)
    /\ last_set.max_depth \notin {Nothing, Some(0)}
    /\ builder.aspect_ratio = Some(Ratio(3, 1))
    /\ camera.image_width = 100
    /\ camera.image_height = 33

-----------------------------------------------------------------------------
(* HitRecord::set_face_normal (geometry/mod.rs) on its own *)

CoordSet == (-MaxCoord)..MaxCoord

InitFace ==
    /\ IdleHit
    /\ IdleTrace
    /\ IdlePpm
    /\ IdleRender
    /\ IdleBuild
    /\ IdleDiel
    /\ IdleScat
    /\ sum_neutral_neg \in BOOLEAN
    \* neither the direction nor the normal of a sphere of non-zero radius is zero
    /\ face_ray \in { Ray(<<0, 0, 0>>, d) :
                         d \in (CoordSet \X CoordSet \X CoordSet) \ {<<0, 0, 0>>} }
    /\ face_outward \in (CoordSet \X CoordSet \X CoordSet) \ {<<0, 0, 0>>}
    \* the record as Sphere::hit fills it before the call
    /\ face_record = [point |-> <<0, 0, 0>>, normal |-> face_outward, t |-> TUnit,
                      front_face |-> FALSE, material |-> "ground"]
    /\ face_pc = "call"

\* hit_record.set_face_normal(r, outward_normal)
SetFaceNormal ==
    /\ face_pc = "call"
    /\ face_record' = set_face_normal(face_record, face_ray, face_outward)
    /\ face_pc' = "done"
    /\ UNCHANGED <<face_ray, face_outward>>
    /\ UNCHANGED <<hitVars, sum_neutral_neg, traceVars, ppmVars, renderVars, buildVars,
                   dielVars, scatVars>>

NextFace == SetFaceNormal

SpecFace == InitFace /\ [][NextFace]_vars

\* The f32 dot product is -0.0: every product is a zero with the sign bit set
\* and the sum starts from -0.0.
DotIsNegativeZero(u, v) ==
    /\ sum_neutral_neg
    /\ \A k \in 1..3 : u[k] * v[k] = 0 /\ ((u[k] < 0) # (v[k] < 0))

\* C9 as stated: front_face is true exactly when direction . outward_normal
\* is non-positive, a dot product of exactly 0 included; the stored normal is
\* the outward normal when front_face and its negation otherwise; so
\* direction . normal <= 0.
C9_Original ==
    face_pc = "done" =>
        /\ face_record.front_face <=> (dot(face_ray.direction, face_outward) <= 0)
        /\ face_record.normal =
               IF face_record.front_face THEN face_outward ELSE VNeg(face_outward)
        /\ dot(face_ray.direction, face_record.normal) <= 0

\* C9 as amended: front_face is true exactly when the dot product has its sign
\* bit set (it is negative, or it is the f32 -0.0), so a grazing ray with dot
\* product +0.0 is not front-facing and gets the negated normal; the stored
\* normal is the outward normal when front_face and its negation otherwise,
\* and direction . normal <= 0 always.
C9_FaceNormal ==
    face_pc = "done" =>
        /\ face_record.front_face <=>
               \/ dot(face_ray.direction, face_outward) < 0
               \/ DotIsNegativeZero(face_ray.direction, face_outward)
        /\ face_record.normal =
               IF face_record.front_face THEN face_outward ELSE VNeg(face_outward)
        /\ dot(face_ray.direction, face_record.normal) <= 0

\* A grazing ray: direction and outward normal are perpendicular.
C9_Witness ==
    /\ face_pc = "done"
    /\ dot(face_ray.direction, face_outward) = 0
    /\ ~face_record.front_face
    /\ face_record.normal = VNeg(face_outward)

-----------------------------------------------------------------------------
(* Dielectric::scatter (material/dielectric.rs), Vec3::reflect, Vec3::refract *)

\* Scattered directions are in units of 1/DirUnit; dot products of two unit
\* vectors in 1/NormUnit^2.
DirUnit == 1000

Min(x, y) == IF x <= y THEN x ELSE y

CosUnit == NormUnit * NormUnit

\* Vec3::reflect(self, n) = self - 2 * self.dot(n) * n, for unit vectors in
\* 1/NormUnit; the result in 1/DirUnit.
reflect(self, n) ==
    VScale(DirUnit \div (CosUnit * NormUnit),
           VSub(VScale(CosUnit, self), VScale(2 * dot(self, n), n)))

\* Vec3::refract(self, n, eta_i_over_eta_t), the result in 1/DirUnit.
refract(self, n, eta) ==
    LET cos_theta == Min(dot(VNeg(self), n), CosUnit)
        sum == VAdd(VScale(CosUnit, self), VScale(cos_theta, n))
        scaled == VScale(eta.num * (DirUnit \div (CosUnit * NormUnit)), sum)
        r_out_perp == <<scaled[1] \div eta.den, scaled[2] \div eta.den,
                        scaled[3] \div eta.den>>
        root == ISqrt(Abs(DirUnit * DirUnit - len_squared(r_out_perp)))
        r_out_parallel == <<(-root * n[1]) \div NormUnit, (-root * n[2]) \div NormUnit,
                            (-root * n[3]) \div NormUnit>>
    IN  VAdd(r_out_perp, r_out_parallel)

\* Schlick's approximation, as the fraction num / den:
\* r0 + (1 - r0) * (1 - cosine)^5 with r0 = ((1 - ref_ior) / (1 + ref_ior))^2.
reflectance(cosine, ref_ior) ==
    LET r0_num == (ref_ior.den - ref_ior.num) * (ref_ior.den - ref_ior.num)
        r0_den == (ref_ior.den + ref_ior.num) * (ref_ior.den + ref_ior.num)
        x == CosUnit - cosine
        x5 == x * x * x * x * x
        one5 == CosUnit * CosUnit * CosUnit * CosUnit * CosUnit
    IN  [num |-> r0_num * one5 + (r0_den - r0_num) * x5, den |-> r0_den * one5]

\* if hit_record.front_face { self.ior.recip() } else { self.ior }
refraction_ratio_swapped(ior, front_face) ==
    IF front_face THEN ior ELSE [num |-> ior.den, den |-> ior.num]

refraction_ratio(ior, front_face) ==
    IF front_face THEN [num |-> ior.den, den |-> ior.num] ELSE ior

\* sin_theta of Dielectric::scatter, in 1/CosUnit.
SinTheta(ray, hit_record) ==
    LET unit_direction == normalize(ray.direction)
        cos_theta == Min(-dot(unit_direction, hit_record.normal), CosUnit)
    IN  ISqrt(CosUnit * CosUnit - cos_theta * cos_theta)

\* Dielectric::scatter with the comparison against the draw turned around.
Dielectric_scatter_inverted_draw(ior, ray, hit_record, random) ==
    LET ratio == refraction_ratio(ior, hit_record.front_face)
        unit_direction == normalize(ray.direction)
        cos_theta == Min(-dot(unit_direction, hit_record.normal), CosUnit)
        sin_theta == ISqrt(CosUnit * CosUnit - cos_theta * cos_theta)
        cannot_refract == ratio.num * sin_theta > ratio.den * CosUnit
        refl == reflectance(cos_theta, ratio)
        reflected == cannot_refract \/ refl.num * RandomSteps < random * refl.den
        direction == IF reflected THEN reflect(unit_direction, hit_record.normal)
                     ELSE refract(unit_direction, hit_record.normal, ratio)
    IN  Some([scattered |-> Ray(hit_record.point, direction),
              attenuation |-> <<1, 1, 1>>,
              reflected |-> reflected])

\* Dielectric::scatter(self, ray, hit_record), random being the draw of
\* rand::random() in 1/RandomSteps.  `reflected` records the branch taken.
Dielectric_scatter(ior, ray, hit_record, random) ==
    LET attenuation == <<1, 1, 1>>
        ratio == refraction_ratio(ior, hit_record.front_face)
        unit_direction == normalize(ray.direction)
        cos_theta == Min(-dot(unit_direction, hit_record.normal), CosUnit)
        sin_theta == ISqrt(CosUnit * CosUnit - cos_theta * cos_theta)
        cannot_refract == ratio.num * sin_theta > ratio.den * CosUnit
        refl == reflectance(cos_theta, ratio)
        use_schlick == refl.num * RandomSteps > random * refl.den
        reflected == cannot_refract \/ use_schlick
        direction == IF reflected THEN reflect(unit_direction, hit_record.normal)
                     ELSE refract(unit_direction, hit_record.normal, ratio)
    IN  Some([scattered |-> Ray(hit_record.point, direction),
              attenuation |-> attenuation,
              reflected |-> reflected])

IorSet == { [num |-> 3, den |-> 2], [num |-> 2, den |-> 1], [num |-> 1, den |-> 1],
            [num |-> 2, den |-> 3] }

\* Unit vectors with exact coordinates in 1/NormUnit.
UnitVectors ==
    { v \in (-NormUnit..NormUnit) \X (-NormUnit..NormUnit) \X {0} :
          len_squared(v) = CosUnit }

InitDiel ==
    /\ IdleHit
    /\ IdleTrace
    /\ IdlePpm
    /\ IdleRender
    /\ IdleBuild
    /\ IdleFace
    /\ IdleScat
    /\ sum_neutral_neg = FALSE
    /\ diel_ior \in IorSet
    /\ diel_ray \in { Ray(<<0, 0, 0>>, d) : d \in {<<3, 4, 0>>, <<8, 6, 0>>, <<0, 1, 0>>} }
    \* a hit record as set_face_normal leaves it: the normal opposes the ray
    /\ diel_record \in
           { [point |-> <<3, 4, 0>>, normal |-> n, t |-> TUnit, front_face |-> f,
              material |-> "glass"] :
                 n \in { v \in UnitVectors : dot(diel_ray.direction, v) <= 0 },
                 f \in BOOLEAN }
    /\ diel_random \in 0..(RandomSteps - 1)
    /\ diel_out = Nothing

\* record.material.scatter(ray, &record) on a Dielectric
DielectricScatter ==
    /\ diel_out = Nothing
    /\ diel_out' = Dielectric_scatter(diel_ior, diel_ray, diel_record, diel_random)
    /\ UNCHANGED <<diel_ior, diel_ray, diel_record, diel_random>>
    /\ UNCHANGED <<hitVars, sum_neutral_neg, traceVars, ppmVars, renderVars, buildVars,
                   faceVars, scatVars>>

NextDiel == DielectricScatter

SpecDiel == InitDiel /\ [][NextDiel]_vars

\* ior > 1 and sin_theta > 1 / ior.
BeyondCriticalAngle ==
    /\ diel_ior.num > diel_ior.den
    /\ SinTheta(diel_ray, diel_record) * diel_ior.num > CosUnit * diel_ior.den

\* C10 as stated: for ior > 1, whenever sin_theta > 1 / ior the reflected
\* direction is chosen, whatever the random draw.
C10_Original ==
    (diel_out # Nothing /\ BeyondCriticalAngle) => diel_out[1].reflected

\* C10 as amended: for ior > 1 and a hit from inside (front_face false, so
\* the refraction ratio is ior), whenever sin_theta > 1 / ior the reflected
\* direction is chosen, whatever the random draw.
C10_TotalInternalReflection ==
    (diel_out # Nothing /\ BeyondCriticalAngle /\ ~diel_record.front_face) =>
        /\ diel_out[1].reflected
        /\ diel_out[1].scattered.direction =
               reflect(normalize(diel_ray.direction), diel_record.normal)

\* A hit from inside beyond the critical angle with the largest random draw.
C10_Witness ==
    /\ diel_out # Nothing
    /\ BeyondCriticalAngle
    /\ ~diel_record.front_face
    /\ diel_random = RandomSteps - 1
    /\ diel_out[1].reflected

\* 1/ior for a hit on the front face, ior otherwise.
ExpectedRatio ==
    IF diel_record.front_face THEN [num |-> diel_ior.den, den |-> diel_ior.num]
    ELSE diel_ior

\* min(1, -unit_direction . normal), in 1/CosUnit.
CosTheta == Min(-dot(normalize(diel_ray.direction), diel_record.normal), CosUnit)

\* refraction_ratio * sin_theta > 1
TotalInternalReflection ==
    ExpectedRatio.num * SinTheta(diel_ray, diel_record) > ExpectedRatio.den * CosUnit

\* The Schlick reflectance exceeds the random draw.
SchlickExceedsDraw ==
    reflectance(CosTheta, ExpectedRatio).num * RandomSteps
        > diel_random * reflectance(CosTheta, ExpectedRatio).den

\* C13: Dielectric::scatter uses 1/ior on a front face and ior otherwise, picks
\* the reflected direction iff ratio * sin_theta > 1 or the Schlick reflectance
\* exceeds the random draw and the refracted direction otherwise, and always
\* returns Some with attenuation (1, 1, 1).
C13_DielectricScatter ==
    /\ Dielectric_scatter(diel_ior, diel_ray, diel_record, diel_random) # Nothing
    /\ diel_out # Nothing =>
           /\ diel_out[1].attenuation = <<1, 1, 1>>
           /\ diel_out[1].scattered.origin = diel_record.point
           /\ diel_out[1].reflected <=> (TotalInternalReflection \/ SchlickExceedsDraw)
           /\ diel_out[1].scattered.direction =
                  IF TotalInternalReflection \/ SchlickExceedsDraw
                  THEN reflect(normalize(diel_ray.direction), diel_record.normal)
                  ELSE refract(normalize(diel_ray.direction), diel_record.normal,
                               ExpectedRatio)

\* A front-face hit that refracts, with a refracted direction that differs from
\* the reflected one.
C13_Witness ==
    /\ diel_out # Nothing
    /\ diel_record.front_face
    /\ diel_ior.num > diel_ior.den
    /\ ~TotalInternalReflection
    /\ ~SchlickExceedsDraw
    /\ ~diel_out[1].reflected
    /\ diel_out[1].scattered.direction
           = refract(normalize(diel_ray.direction), diel_record.normal, ExpectedRatio)
    /\ diel_out[1].scattered.direction
           # reflect(normalize(diel_ray.direction), diel_record.normal)

-----------------------------------------------------------------------------
(* Lambertian::scatter (material/lambertian.rs), Metal::scatter              *)
(* (material/metal.rs) and Vec3::near_zero                                   *)

\* 1 / s for the s = 1e-8 of Vec3::near_zero.
NearZeroRecip == 100000000

near_zero_never(self) == FALSE

\* Vec3::near_zero on a vector in 1/NormUnit: every |component| < 1e-8.
near_zero(self) ==
    \A k \in 1..3 : Abs(self[k]) * NearZeroRecip < NormUnit

Lambertian(albedo) == [kind |-> "lambertian", albedo |-> albedo]

Metal(albedo, fuzz) == [kind |-> "metal", albedo |-> albedo, fuzz |-> fuzz]

\* Lambertian::scatter(self, _ray, hit_record); unit is the value of
\* Vec3::random_on_unit_sphere().  The direction is in 1/NormUnit.
Lambertian_scatter(self, ray, hit_record, unit) ==
    LET sum == VAdd(hit_record.normal, unit)
        scatter_direction == IF near_zero(sum) THEN hit_record.normal ELSE sum
        scattered == Ray(hit_record.point, scatter_direction)
        attenuation == self.albedo
    IN  Some([scattered |-> scattered, attenuation |-> attenuation])

\* Metal::scatter as in the book: None when the fuzzed direction does not
\* leave the surface.
Metal_scatter_absorbing(self, ray, hit_record, unit) ==
    LET reflected == reflect(normalize(ray.direction), hit_record.normal)
        fuzzed == VScale(self.fuzz.num * (DirUnit \div NormUnit), unit)
        fuzz_unit == <<fuzzed[1] \div self.fuzz.den, fuzzed[2] \div self.fuzz.den,
                       fuzzed[3] \div self.fuzz.den>>
        scattered == Ray(hit_record.point, VAdd(reflected, fuzz_unit))
    IN  IF dot(scattered.direction, hit_record.normal) > 0
        THEN Some([scattered |-> scattered, attenuation |-> self.albedo])
        ELSE Nothing

\* Metal::scatter(self, ray, hit_record).  The direction is in 1/DirUnit.
Metal_scatter(self, ray, hit_record, unit) ==
    LET reflected == reflect(normalize(ray.direction), hit_record.normal)
        fuzzed == VScale(self.fuzz.num * (DirUnit \div NormUnit), unit)
        fuzz_unit == <<fuzzed[1] \div self.fuzz.den, fuzzed[2] \div self.fuzz.den,
                       fuzzed[3] \div self.fuzz.den>>
        scattered == Ray(hit_record.point, VAdd(reflected, fuzz_unit))
        attenuation == self.albedo
    IN  Some([scattered |-> scattered, attenuation |-> attenuation])

FuzzSet == { [num |-> 0, den |-> 1], [num |-> 1, den |-> 2], [num |-> 1, den |-> 1] }

MaterialSet ==
    { Lambertian(a) : a \in AttenuationSet }
        \cup { Metal(a, f) : a \in {<<2, 0, 1>>}, f \in FuzzSet }

\* record.material.scatter(ray, &record) for the two materials above
Material_scatter(self, ray, hit_record, unit) ==
    IF self.kind = "lambertian" THEN Lambertian_scatter(self, ray, hit_record, unit)
    ELSE Metal_scatter(self, ray, hit_record, unit)

InitScat ==
    /\ IdleHit
    /\ IdleTrace
    /\ IdlePpm
    /\ IdleRender
    /\ IdleBuild
    /\ IdleFace
    /\ IdleDiel
    /\ sum_neutral_neg = FALSE
    /\ scat_material \in MaterialSet
    /\ scat_ray \in { Ray(<<0, 0, 0>>, d) : d \in {<<3, 4, 0>>, <<8, 6, 0>>, <<0, 1, 0>>} }
    \* a hit record as set_face_normal leaves it: the normal opposes the ray
    /\ scat_record \in
           { [point |-> <<3, 4, 0>>, normal |-> n, t |-> TUnit, front_face |-> f,
              material |-> scat_material.kind] :
                 n \in { v \in UnitVectors : dot(scat_ray.direction, v) <= 0 },
                 f \in BOOLEAN }
    /\ scat_unit \in UnitVectors
    /\ scat_out = Nothing
    /\ scat_pc = "call"

Scatter ==
    /\ scat_pc = "call"
    /\ scat_out' = Material_scatter(scat_material, scat_ray, scat_record, scat_unit)
    /\ scat_pc' = "done"
    /\ UNCHANGED <<scat_material, scat_ray, scat_record, scat_unit>>
    /\ UNCHANGED <<hitVars, sum_neutral_neg, traceVars, ppmVars, renderVars, buildVars,
                   faceVars, dielVars>>

NextScat == Scatter

SpecScat == InitScat /\ [][NextScat]_vars

\* normal + random unit vector has every component below 1e-8 in size.
SumIsNearZero ==
    \A k \in 1..3 : Abs(scat_record.normal[k] + scat_unit[k]) * NearZeroRecip < NormUnit

\* C11: Lambertian::scatter always returns a scattered ray and an attenuation,
\* the attenuation is the albedo, the scattered ray starts at the hit point,
\* and when normal + random unit vector is near zero the scattered direction is
\* the normal itself.
C11_LambertianScatter ==
    (scat_pc = "done" /\ scat_material.kind = "lambertian") =>
        /\ scat_out # Nothing
        /\ scat_out[1].attenuation = scat_material.albedo
        /\ scat_out[1].scattered.origin = scat_record.point
        /\ SumIsNearZero => scat_out[1].scattered.direction = scat_record.normal
        /\ ~SumIsNearZero =>
               scat_out[1].scattered.direction = VAdd(scat_record.normal, scat_unit)

\* The random unit vector is the opposite of the normal, and scatter returned.
C11_Witness ==
    /\ scat_pc = "done"
    /\ scat_material.kind = "lambertian"
    /\ scat_unit = VNeg(scat_record.normal)
    /\ scat_out # Nothing
    /\ scat_out[1].scattered.direction = scat_record.normal

-----------------------------------------------------------------------------
(* Camera::ray_color over a scene whose materials are the three built-in    *)
(* ones: the hit is whatever the world answers, the scatter is the          *)
(* material's.                                                              *)

Dielectric(ior) == [kind |-> "dielectric", ior |-> ior]

\* The materials of the scene of main.rs, one of each kind.
SceneMaterials ==
    { Lambertian(<<2, 0, 1>>), Metal(<<0, 1, 2>>, [num |-> 1, den |-> 2]),
      Dielectric([num |-> 3, den |-> 2]) }

\* The normals the world may report, and the draws of random_on_unit_sphere.
SceneNormals == { <<3, -4, 0>>, <<0, -5, 0>>, <<0, 5, 0>> }

SceneUnits == { <<-3, 4, 0>>, <<0, 5, 0>> }

\* record.material.scatter(ray, &record), dispatched on the material.
scatter(self, ray, hit_record, unit, random) ==
    IF self.kind = "dielectric"
    THEN Dielectric_scatter(self.ior, ray, hit_record, random)
    ELSE IF self.kind = "metal" THEN Metal_scatter(self, ray, hit_record, unit)
    ELSE Lambertian_scatter(self, ray, hit_record, unit)

\* world.hit returns a record; its material scatters or absorbs.
RayColorHit ==
    /\ trace_pc = "call"
    /\ depth # 0
    /\ \E material \in SceneMaterials, front_face \in BOOLEAN, unit \in SceneUnits,
          random \in {0, RandomSteps - 1},
          normal \in { n \in SceneNormals : dot(cur_ray.direction, n) <= 0 } :
           LET record == [point |-> <<0, 0, 0>>, normal |-> normal, t |-> TUnit,
                          front_face |-> front_face, material |-> material.kind]
               result == scatter(material, cur_ray, record, unit, random)
           IN  /\ hit_tests' = hit_tests + 1
               /\ IF result = Nothing
                  THEN /\ color' = Black
                       /\ trace_pc' = "return"
                       /\ path' = Append(path, [ray |-> cur_ray, outcome |-> "absorb",
                                                material |-> material,
                                                normal |-> normal])
                       /\ UNCHANGED <<cur_ray, depth, stack>>
                  ELSE /\ stack' = Append(stack, result[1].attenuation)
                       /\ cur_ray' = result[1].scattered
                       /\ depth' = depth - 1
                       /\ path' = Append(path, [ray |-> cur_ray, outcome |-> "scatter",
                                                attenuation |-> result[1].attenuation,
                                                material |-> material,
                                                normal |-> normal])
                       /\ UNCHANGED <<color, trace_pc>>
    /\ UNCHANGED call_depth

NextScene ==
    /\ \/ RayColorBlack
       \/ RayColorMiss
       \/ RayColorHit
       \/ RayColorReturn
       \/ RayColorDone
    /\ UNCHANGED <<hitVars, sum_neutral_neg, ppmVars, renderVars, buildVars, faceVars,
                   dielVars, scatVars>>

SpecScene == InitTrace /\ [][NextScene]_vars

\* C14: none of the three built-in materials signals absorption (Metal keeps
\* attenuation = albedo even when the fuzzed direction does not leave the
\* surface), so in a scene built from them no call of ray_color takes the
\* absorption branch: a path ends by a miss or by depth exhaustion.
C14_NoAbsorption ==
    /\ \A k \in 1..Len(path) :
           /\ path[k].outcome # "absorb"
           /\ path[k].outcome = "scatter" =>
                  path[k].attenuation =
                      IF path[k].material.kind = "dielectric" THEN <<1, 1, 1>>
                      ELSE path[k].material.albedo
    /\ trace_pc \in {"return", "done"} =>
           /\ path[Len(path)].outcome \in {"miss", "depth"}
           /\ path[Len(path)].outcome = "depth" => Len(path) = call_depth + 1
    /\ (trace_pc = "done" /\ path[Len(path)].outcome = "depth") => color = Black

\* A finished path on which a Metal scattered into the surface.
C14_Witness ==
    /\ trace_pc = "done"
    /\ \E k \in 1..(Len(path) - 1) :
           /\ path[k].outcome = "scatter"
           /\ path[k].material.kind = "metal"
           /\ dot(path[k + 1].ray.direction, path[k].normal) <= 0
           /\ path[k].attenuation = path[k].material.albedo

=============================================================================
